---- MODULE Spec2Model ----
(***************************************************************************)
(* Model of mcp-proxy's two interceptors:                                  *)
(*   - TokenAuthMiddleware (src/src/mcp_proxy/auth_middleware.py)          *)
(*   - NonErrorServer._handle_request (src/src/mcp_proxy/non_error_server.py) *)
(* Python strings are sequences of one-character strings, so that strip(), *)
(* startswith() and slicing are computed rather than assumed.              *)
(***************************************************************************)
EXTENDS Integers, Sequences, FiniteSets, TLC

\* ---------------------------------------------------------------- bounds
\* longest secret / presented token, in characters
MaxTokLen == 2

\* ------------------------------------------------------- Python strings
\* characters secrets and presented tokens are built from
Alphabet == {"a", "b", " "}

\* the characters of Alphabet that str.strip() removes
Whitespace == {" "}

\* all strings over Alphabet of length 0..n
Strs(n) == UNION {[1..k -> Alphabet] : k \in 0..n}

\* Optional[str]: None, or a string
None == [some |-> FALSE, val |-> <<>>]

Some(s) == [some |-> TRUE, val |-> s]

RECURSIVE LStrip(_)
LStrip(s) == IF s /= <<>> /\ Head(s) \in Whitespace THEN LStrip(Tail(s)) ELSE s

RECURSIVE RStrip(_)
RStrip(s) ==
    IF s /= <<>> /\ s[Len(s)] \in Whitespace
    THEN RStrip(SubSeq(s, 1, Len(s) - 1))
    ELSE s

\* str.strip()
Strip(s) == RStrip(LStrip(s))

\* str.startswith(p)
StartsWith(s, p) == Len(s) >= Len(p) /\ SubSeq(s, 1, Len(p)) = p

\* s[n:]
SliceFrom(s, n) == SubSeq(s, n + 1, Len(s))

\* the literal "Bearer "
BearerPrefix == <<"B", "e", "a", "r", "e", "r", " ">>

\* ---------------------------------------------------- TokenAuthMiddleware
\* values os.getenv("MCP_PROXY_AUTH_TOKEN") can return
Secrets == {None} \cup {Some(s) : s \in Strs(MaxTokLen)}

\* self.enabled as __init__ computes it from the secret
\* (variant: the secret is not trimmed before its length is tested)
EnabledOfNoStrip(tok) == tok.some /\ Len(tok.val) > 0

EnabledOf(tok) == tok.some /\ Len(Strip(tok.val)) > 0

\* self.public_paths
public_paths == {"/status"}

\* request.url.path values
Paths == {"/status", "/status/", "/Status", "/test"}

\* what a client can put in front of the token in the Authorization header
HeaderPrefixes ==
    { <<>>,
      BearerPrefix,
      <<"b", "e", "a", "r", "e", "r", " ">>,
      <<"B", "e", "a", "r", "e", "r">>,
      <<"B", "a", "s", "i", "c", " ">> }

\* request.headers.get("Authorization"): None, or the header's value
Headers == {None} \cup {Some(p \o t) : p \in HeaderPrefixes, t \in Strs(MaxTokLen)}

\* a JSON object is the set of its key/value pairs
MissingHeaderBody ==
    { <<"error", "Missing authorization header">>,
      <<"message", "Include 'Authorization: Bearer <token>' header">> }

InvalidFormatBody ==
    { <<"error", "Invalid authorization format">>,
      <<"message", "Use 'Bearer <token>' format">> }

InvalidTokenBody ==
    { <<"error", "Invalid token">>,
      <<"message", "The provided token is not valid">> }

\* JSONResponse(status_code=..., content=...)
JSONResponse(status, content) == [status |-> status, content |-> content]

\* responses the downstream handler (call_next) can return
DownstreamResponses ==
    { JSONResponse(200, {<<"message", "success">>}),
      JSONResponse(500, {<<"detail", "Internal Server Error">>}) }

NoResponse == JSONResponse(0, {})

\* not auth_header: None and the empty string are both falsy
Falsy(h) == (~h.some) \/ h.val = <<>>

\* str.lower() on the letters that matter here
Lower(s) == [i \in 1..Len(s) |-> IF s[i] = "B" THEN "b" ELSE s[i]]

\* the header's prefix test of dispatch
\* (variant: the prefix is compared without regard to case)
HasBearerPrefixAnyCase(h) == StartsWith(Lower(h.val), Lower(BearerPrefix))

HasBearerPrefix(h) == StartsWith(h.val, BearerPrefix)

\* the token comparison of dispatch: auth_header[7:] against self.auth_token
\* (variant: both sides are trimmed before the comparison)
TokenMatchesStripped(h, tok) == Strip(SliceFrom(h.val, 7)) = Strip(tok.val)

TokenMatches(h, tok) == SliceFrom(h.val, 7) = tok.val

\* is the path exempt from gating
\* (variant: the exempt path is spelled with a trailing slash)
IsPublicTrailingSlash(path) == path \in {"/status/"}

IsPublic(path) == path \in public_paths

\* The decision of dispatch, in the order of the code's checks.
\* [forward: call_next is awaited and its response returned;
\*  inspected: request.headers.get("Authorization") was executed;
\*  deny: the JSONResponse returned when not forwarded]
Authorize(en, tok, path, h) ==
    IF ~en THEN
        [forward |-> TRUE, inspected |-> FALSE, deny |-> NoResponse]
    ELSE IF IsPublic(path) THEN
        [forward |-> TRUE, inspected |-> FALSE, deny |-> NoResponse]
    ELSE IF Falsy(h) THEN
        [forward |-> FALSE, inspected |-> TRUE,
         deny |-> JSONResponse(401, MissingHeaderBody)]
    ELSE IF ~HasBearerPrefix(h) THEN
        [forward |-> FALSE, inspected |-> TRUE,
         deny |-> JSONResponse(401, InvalidFormatBody)]
    ELSE IF ~TokenMatches(h, tok) THEN
        [forward |-> FALSE, inspected |-> TRUE,
         deny |-> JSONResponse(403, InvalidTokenBody)]
    ELSE
        [forward |-> TRUE, inspected |-> TRUE, deny |-> NoResponse]

\* --------------------------------------------------------- NonErrorServer
\* concurrently scheduled dispatches (one task per in-flight request)
NumTasks == 2

Tasks == 1..NumTasks

\* request classes a client can send
ReqTypes == {"CallToolRequest", "SetLevelRequest"}

\* handler tables the framework can have populated (self.request_handlers,
\* by the set of its keys)
HandlerTables == {{"CallToolRequest"}, {"SetLevelRequest"}}

\* payload contents of a tool result
Contents == {"bad input", "ok"}

\* str(err) of an exception a handler can raise
ExcTexts == {"boom", "oops"}

\* types.METHOD_NOT_FOUND
METHOD_NOT_FOUND == -32601

\* hasattr(obj, name)
HasAttr(obj, name) == name \in DOMAIN obj

\* types.CallToolResult: a result type that carries isError
CallToolResult(content, isError) == [content |-> content, isError |-> isError]

\* types.EmptyResult: a result type without isError
EmptyResult == [meta |-> None]

\* types.ServerResult(root)
ServerResult(root) == [root |-> root]

\* types.ErrorData(code=..., message=..., data=...)
ErrorData(code, message, data) == [code |-> code, message |-> message, data |-> data]

\* ErrorData allows extra fields: an error payload that carries isError
ErrorDataWithIndicator(code, message, data, isError) ==
    [code |-> code, message |-> message, data |-> data, isError |-> isError]

\* error payloads a handler can raise inside a McpError
McpErrorPayloads ==
    { ErrorData(-32602, "Invalid params", None),
      ErrorDataWithIndicator(-32602, "Invalid params", None, TRUE) }

\* what `await handler(req)` can end with
\*   return:        a ServerResult
\*   McpError:      raise McpError(error)
\*   Exception:     raise of any other Exception, with its str()
\*   BaseException: a raise that `except Exception` does not catch
\*                  (cancellation of the awaiting task, KeyboardInterrupt)
HandlerOutcomes ==
    {[kind |-> "return", value |-> ServerResult(CallToolResult(c, e))] :
        c \in Contents, e \in BOOLEAN}
    \cup {[kind |-> "return", value |-> ServerResult(EmptyResult)]}
    \cup {[kind |-> "McpError", error |-> e] : e \in McpErrorPayloads}
    \cup {[kind |-> "Exception", text |-> x] : x \in ExcTexts}
    \cup {[kind |-> "BaseException"]}

\* the normal-completion branch: flip a true isError of response.root
\* (variant: the result is sent as the handler returned it)
NormalizeResultNoop(response) == response

NormalizeResult(response) ==
    IF HasAttr(response.root, "isError") /\ response.root.isError
    THEN [response EXCEPT !.root.isError = FALSE]
    ELSE response

\* the McpError branch: response = err.error, isError forced to False if present
\* (variant: the carried payload is sent as raised)
NormalizeMcpErrorNoop(error) == error

NormalizeMcpError(error) ==
    IF HasAttr(error, "isError")
    THEN [error EXCEPT !.isError = FALSE]
    ELSE error

\* the generic branch: ErrorData(code=0, message=str(err), data=None), wrapped
\* (variant: a fixed message instead of the failure's text)
GenericErrorFixedText(text) == ServerResult(ErrorData(0, "Internal error", None))

GenericError(text) ==
    LET response == ServerResult(ErrorData(0, text, None)) IN
    IF HasAttr(response.root, "isError")
    THEN [response EXCEPT !.root.isError = FALSE]
    ELSE response

\* does the handler's outcome leave _handle_request as a raised exception
\* (variant: raise_exceptions is not consulted)
ReraisesAlways(outcome, raise_exceptions) ==
    outcome.kind \in {"Exception", "BaseException"}

Reraises(outcome, raise_exceptions) ==
    \/ outcome.kind = "BaseException"
    \/ outcome.kind = "Exception" /\ raise_exceptions

\* the value of `response` when the try statement is left normally
ResponseOf(outcome) ==
    CASE outcome.kind = "return" -> NormalizeResult(outcome.value)
      [] outcome.kind = "McpError" -> NormalizeMcpError(outcome.error)
      [] outcome.kind = "Exception" -> GenericError(outcome.text)

\* the else branch: ErrorData(code=METHOD_NOT_FOUND, message="Method not found")
\* (variant: wrapped and neutralized like the payload of the generic branch)
MethodNotFoundWrapped ==
    ServerResult(ErrorDataWithIndicator(METHOD_NOT_FOUND, "Method not found", None, FALSE))

MethodNotFound == ErrorData(METHOD_NOT_FOUND, "Method not found", None)

\* a context variable without a value (request_ctx.get() raises LookupError)
NoBinding == [bound |-> FALSE]

\* RequestContext(message.request_id, message.request_meta, session, lifespan_context)
RequestContext(request_id, request_meta, session, lifespan_context) ==
    [bound |-> TRUE, request_id |-> request_id, request_meta |-> request_meta,
     session |-> session, lifespan_context |-> lifespan_context]

\* the message a task dispatches: request ids are unique among in-flight requests
MessageOf(t) == [request_id |-> t, request_meta |-> <<"progressToken", t>>]

\* the binding _handle_request makes for task t's message
BindingOf(t) ==
    RequestContext(MessageOf(t).request_id, MessageOf(t).request_meta,
                   "session", "lifespan")

\* a binding inherited from the code that spawned the tasks
OuterBinding == RequestContext(0, <<"progressToken", 0>>, "session", "lifespan")

\* values request_ctx can have in the context the tasks are spawned from
ParentBindings == {NoBinding, OuterBinding}

\* request_ctx.get() in task t: a ContextVar is read in the task's own context
CtxGet(ctx, t) == ctx[t]

\* request_ctx.set(v) in task t: changes the task's own context only
\* (variant: one module-level slot shared by all tasks)
CtxSetShared(ctx, t, v) == [u \in Tasks |-> v]

CtxSet(ctx, t, v) == [ctx EXCEPT ![t] = v]

\* the Token returned by request_ctx.set: remembers the value replaced
NoToken == [some |-> FALSE]

Token(old) == [some |-> TRUE, old_value |-> old]

\* request_ctx.reset(token) in task t: restores the value the set replaced
\* (variant: the binding is left in place)
CtxResetNoop(ctx, t, tok) == ctx

CtxReset(ctx, t, tok) == [ctx EXCEPT ![t] = tok.old_value]

\* the finally clause: reset only if a token was obtained
Finally(ctx, t, tok) == IF tok.some THEN CtxReset(ctx, t, tok) ELSE ctx

\* "no value yet" for per-dispatch locals
Unbound == [unbound |-> TRUE]

VARIABLES
    auth_token,      \* self.auth_token
    enabled,         \* self.enabled
    gate_pc,         \* "ready" before the first request, "served" after a dispatch
    request,         \* the last dispatched request: [path, header]
    down_response,   \* what call_next returned in the last dispatch (NoResponse if not called)
    gate_response,   \* what the last dispatch returned
    call_next_calls, \* how often the last dispatch awaited call_next
    header_read      \* whether the last dispatch read the Authorization header

gate_vars ==
    <<auth_token, enabled, gate_pc, request, down_response, gate_response,
      call_next_calls, header_read>>

VARIABLES
    request_handlers, \* self.request_handlers, by the set of its keys
    parent_ctx,       \* request_ctx in the context the tasks were spawned from
    request_ctx,      \* request_ctx, per task context
    pc,               \* where each task's _handle_request stands
    req,              \* type(req) of the task's request
    raise_exceptions, \* the raise_exceptions argument of the task's call
    token,            \* the local `token`
    seen,             \* what the handler last read with request_ctx.get()
    handler_calls,    \* how often the dispatch invoked a handler
    outcome,          \* how the awaited handler ended
    response,         \* the local `response` / `error_response`
    sent,             \* the arguments of the task's message.respond calls
    raised            \* the exception that left _handle_request, if any

server_vars ==
    <<request_handlers, parent_ctx, request_ctx, pc, req, raise_exceptions,
      token, seen, handler_calls, outcome, response, sent, raised>>

vars == <<gate_vars, server_vars>>

\* the state after TokenAuthMiddleware.__init__ with the given secret
GateInitWith(secret) ==
    /\ auth_token = secret
    /\ enabled = EnabledOf(auth_token)
    /\ gate_pc = "ready"
    /\ request = [path |-> "/", header |-> None]
    /\ down_response = NoResponse
    /\ gate_response = NoResponse
    /\ call_next_calls = 0
    /\ header_read = FALSE

\* a server with the given handler table, no dispatch started
ServerInitWith(table, parent) ==
    /\ request_handlers = table
    /\ parent_ctx = parent
    /\ request_ctx = [t \in Tasks |-> parent]
    /\ pc = [t \in Tasks |-> "idle"]
    /\ req = [t \in Tasks |-> "none"]
    /\ raise_exceptions = [t \in Tasks |-> FALSE]
    /\ token = [t \in Tasks |-> NoToken]
    /\ seen = [t \in Tasks |-> Unbound]
    /\ handler_calls = [t \in Tasks |-> 0]
    /\ outcome = [t \in Tasks |-> Unbound]
    /\ response = [t \in Tasks |-> Unbound]
    /\ sent = [t \in Tasks |-> <<>>]
    /\ raised = [t \in Tasks |-> "none"]

GateInit ==
    /\ \E secret \in Secrets : GateInitWith(secret)
    /\ ServerInitWith({"CallToolRequest"}, NoBinding)

\* TokenAuthMiddleware.dispatch(request, call_next)
Dispatch ==
    \E path \in Paths, h \in Headers, down \in DownstreamResponses :
        LET d == Authorize(enabled, auth_token, path, h) IN
        /\ gate_pc = "ready"
        /\ request' = [path |-> path, header |-> h]
        /\ gate_pc' = "served"
        /\ header_read' = d.inspected
        /\ call_next_calls' = IF d.forward THEN 1 ELSE 0
        /\ down_response' = IF d.forward THEN down ELSE NoResponse
        /\ gate_response' = IF d.forward THEN down ELSE d.deny
        /\ UNCHANGED <<auth_token, enabled>>
        /\ UNCHANGED server_vars

\* the response has been handed back to the transport; nothing of the request
\* is kept (the middleware holds no per-request state)
GateReturn ==
    /\ gate_pc = "served"
    /\ gate_pc' = "ready"
    /\ request' = [path |-> "/", header |-> None]
    /\ down_response' = NoResponse
    /\ gate_response' = NoResponse
    /\ call_next_calls' = 0
    /\ header_read' = FALSE
    /\ UNCHANGED <<auth_token, enabled>>
    /\ UNCHANGED server_vars

GateNext == Dispatch \/ GateReturn

SpecGate == GateInit /\ [][GateNext]_vars

\* ------------------------------------------- NonErrorServer._handle_request
ServerInit ==
    /\ \E table \in HandlerTables, parent \in ParentBindings :
            ServerInitWith(table, parent)
    /\ GateInitWith(None)

\* _handle_request from its entry to its first suspension: the handler lookup,
\* then either request_ctx.set and the call of the handler, or the building of
\* the "Method not found" payload
Start(t) ==
    \E r \in ReqTypes, re \in BOOLEAN :
        /\ pc[t] = "idle"
        /\ req' = [req EXCEPT ![t] = r]
        /\ raise_exceptions' = [raise_exceptions EXCEPT ![t] = re]
        /\ IF r \in request_handlers
           THEN /\ token' = [token EXCEPT ![t] = Token(CtxGet(request_ctx, t))]
                /\ request_ctx' = CtxSet(request_ctx, t, BindingOf(t))
                /\ handler_calls' = [handler_calls EXCEPT ![t] = @ + 1]
                /\ pc' = [pc EXCEPT ![t] = "handler"]
                /\ UNCHANGED response
           ELSE /\ response' = [response EXCEPT ![t] = MethodNotFound]
                /\ pc' = [pc EXCEPT ![t] = "respond"]
                /\ UNCHANGED <<token, request_ctx, handler_calls>>
        /\ UNCHANGED <<request_handlers, parent_ctx, seen, outcome, sent, raised>>
        /\ UNCHANGED gate_vars

\* the running handler reads the request context (app.request_context)
HandlerGet(t) ==
    /\ pc[t] = "handler"
    /\ seen' = [seen EXCEPT ![t] = CtxGet(request_ctx, t)]
    /\ UNCHANGED <<request_handlers, parent_ctx, request_ctx, pc, req,
                   raise_exceptions, token, handler_calls, outcome, response,
                   sent, raised>>
    /\ UNCHANGED gate_vars

\* the awaited handler ends; the except clauses and the finally clause run, up
\* to `await message.respond(response)` or to the exception leaving the method
HandlerEnd(t) ==
    \E o \in HandlerOutcomes :
        /\ pc[t] = "handler"
        /\ outcome' = [outcome EXCEPT ![t] = o]
        /\ seen' = [seen EXCEPT ![t] = Unbound]
        /\ request_ctx' = Finally(request_ctx, t, token[t])
        /\ IF Reraises(o, raise_exceptions[t])
           THEN /\ raised' = [raised EXCEPT ![t] = o.kind]
                /\ pc' = [pc EXCEPT ![t] = "raised"]
                /\ UNCHANGED response
           ELSE /\ response' = [response EXCEPT ![t] = ResponseOf(o)]
                /\ pc' = [pc EXCEPT ![t] = "respond"]
                /\ UNCHANGED raised
        /\ UNCHANGED <<request_handlers, parent_ctx, req, raise_exceptions,
                       token, handler_calls, sent>>
        /\ UNCHANGED gate_vars

\* await message.respond(response), then "Response sent" and the return
Respond(t) ==
    /\ pc[t] = "respond"
    /\ sent' = [sent EXCEPT ![t] = Append(@, response[t])]
    /\ pc' = [pc EXCEPT ![t] = "done"]
    /\ UNCHANGED <<request_handlers, parent_ctx, request_ctx, req,
                   raise_exceptions, token, seen, handler_calls, outcome,
                   response, raised>>
    /\ UNCHANGED gate_vars

\* the call is over and its frame is gone; the task takes the next message
Return(t) ==
    /\ pc[t] \in {"done", "raised"}
    /\ pc' = [pc EXCEPT ![t] = "idle"]
    /\ req' = [req EXCEPT ![t] = "none"]
    /\ raise_exceptions' = [raise_exceptions EXCEPT ![t] = FALSE]
    /\ token' = [token EXCEPT ![t] = NoToken]
    /\ handler_calls' = [handler_calls EXCEPT ![t] = 0]
    /\ outcome' = [outcome EXCEPT ![t] = Unbound]
    /\ response' = [response EXCEPT ![t] = Unbound]
    /\ sent' = [sent EXCEPT ![t] = <<>>]
    /\ raised' = [raised EXCEPT ![t] = "none"]
    /\ UNCHANGED <<request_handlers, parent_ctx, request_ctx, seen>>
    /\ UNCHANGED gate_vars

ServerNext ==
    \E t \in Tasks :
        \/ Start(t)
        \/ HandlerGet(t)
        \/ HandlerEnd(t)
        \/ Respond(t)
        \/ Return(t)

SpecServer == ServerInit /\ [][ServerNext]_vars

\* ------------------------------------------------ properties of the gate
\* the secret is absent, empty, or made of whitespace only
Blank(tok) == (~tok.some) \/ \A i \in 1..Len(tok.val) : tok.val[i] \in Whitespace

\* the last dispatch awaited call_next once and returned its response unchanged
Forwarded ==
    /\ call_next_calls = 1
    /\ down_response \in DownstreamResponses
    /\ gate_response = down_response

\* the last dispatch answered itself, without calling the downstream handler
DeniedWith(status, error) ==
    /\ call_next_calls = 0
    /\ gate_response.status = status
    /\ <<"error", error>> \in gate_response.content

\* C1: with an absent, empty or whitespace-only secret every request is
\* forwarded to the downstream handler, whatever its path and header, and no
\* 401 or 403 is produced.
C1_DisabledForwardsAll ==
    (gate_pc = "served" /\ Blank(auth_token)) =>
        (Forwarded /\ gate_response.status \notin {401, 403})

\* a whitespace-only secret, a protected path and a header with a wrong token
C1_Witness ==
    /\ gate_pc = "served"
    /\ auth_token = Some(<<" ", " ">>)
    /\ request.path = "/test"
    /\ request.header = Some(BearerPrefix \o <<"b">>)
    /\ Forwarded

\* C2: a request to exactly /status is always forwarded, gating on or off,
\* whatever the header; the header is not read and no 401/403 is answered.
C2_StatusAlwaysPublic ==
    (gate_pc = "served" /\ request.path = "/status") =>
        (Forwarded /\ ~header_read /\ gate_response.status \notin {401, 403})

\* gating on, /status, header carrying a wrong token
C2_Witness ==
    /\ gate_pc = "served"
    /\ ~Blank(auth_token)
    /\ request.path = "/status"
    /\ request.header = Some(BearerPrefix \o <<"b">>)
    /\ auth_token.val /= <<"b">>
    /\ Forwarded

\* C3: with gating on and a path other than /status, the downstream handler
\* is invoked iff the header is "Bearer " followed by the untrimmed secret;
\* then it is invoked once and its response returned unchanged, otherwise it
\* is not invoked at all.
C3_ForwardIffExactToken ==
    (gate_pc = "served" /\ ~Blank(auth_token) /\ request.path /= "/status") =>
        IF request.header = Some(BearerPrefix \o auth_token.val)
        THEN Forwarded
        ELSE call_next_calls = 0

\* a secret with surrounding whitespace presented exactly
C3_Witness ==
    /\ gate_pc = "served"
    /\ auth_token = Some(<<" ", "a">>)
    /\ request.path = "/test"
    /\ request.header = Some(BearerPrefix \o <<" ", "a">>)
    /\ Forwarded

\* the protected case: gating on and a path other than /status
Protected == gate_pc = "served" /\ ~Blank(auth_token) /\ request.path /= "/status"

\* C4 (as stated): absent header -> 401 Missing; any present header without
\* the "Bearer " prefix -> 401 Invalid format; prefixed header with another
\* token -> 403 Invalid token.
C4_Original ==
    Protected =>
        /\ (~request.header.some) => DeniedWith(401, "Missing authorization header")
        /\ (request.header.some /\ ~StartsWith(request.header.val, BearerPrefix))
               => DeniedWith(401, "Invalid authorization format")
        /\ (request.header.some /\ StartsWith(request.header.val, BearerPrefix)
               /\ SliceFrom(request.header.val, 7) /= auth_token.val)
               => DeniedWith(403, "Invalid token")

\* C4 (amended): an absent or empty header -> 401 Missing; a non-empty header
\* without the case-sensitive "Bearer " prefix -> 401 Invalid format; a
\* prefixed header with another token -> 403 Invalid token; a header without
\* the prefix never yields 403.
C4_DenialOrder ==
    Protected =>
        /\ (~request.header.some \/ request.header.val = <<>>)
               => (DeniedWith(401, "Missing authorization header")
                   /\ gate_response.content = MissingHeaderBody)
        /\ (request.header.some /\ request.header.val /= <<>>
               /\ ~StartsWith(request.header.val, BearerPrefix))
               => (DeniedWith(401, "Invalid authorization format")
                   /\ gate_response.content = InvalidFormatBody)
        /\ (request.header.some /\ StartsWith(request.header.val, BearerPrefix)
               /\ SliceFrom(request.header.val, 7) /= auth_token.val)
               => (DeniedWith(403, "Invalid token")
                   /\ gate_response.content = InvalidTokenBody)
        /\ (~request.header.some \/ ~StartsWith(request.header.val, BearerPrefix))
               => gate_response.status /= 403

\* a lower-case "bearer " header carrying the right token is a format error
C4_Witness ==
    /\ Protected
    /\ auth_token = Some(<<"a">>)
    /\ request.header = Some(<<"b", "e", "a", "r", "e", "r", " ", "a">>)
    /\ DeniedWith(401, "Invalid authorization format")

\* ------------------------------------ properties of NonErrorServer
\* the task's call of _handle_request has ended (returned or raised)
Ended(t) == pc[t] \in {"done", "raised"}

\* the task's handler was invoked and has ended in the given way
HandlerEnded(t, kind) == "kind" \in DOMAIN outcome[t] /\ outcome[t].kind = kind

\* the error indicator of a message, wherever the message carries it
IndicatorTrue(m) ==
    \/ "isError" \in DOMAIN m /\ m.isError = TRUE
    \/ "root" \in DOMAIN m /\ "isError" \in DOMAIN m.root /\ m.root.isError = TRUE

\* C5: a handler result with a true error indicator is sent as the same
\* result with the indicator false and every other field unchanged; a result
\* whose indicator is false or absent is sent unmodified.
C5_ResultNeutralized ==
    \A t \in Tasks :
        (pc[t] = "done" /\ HandlerEnded(t, "return")) =>
            LET root == outcome[t].value.root IN
            IF "isError" \in DOMAIN root /\ root.isError = TRUE
            THEN sent[t] = <<ServerResult(CallToolResult(root.content, FALSE))>>
            ELSE sent[t] = <<outcome[t].value>>

\* Scenario D: a result with indicator true and payload "bad input" has been sent
C5_Witness ==
    \E t \in Tasks :
        /\ pc[t] = "done"
        /\ HandlerEnded(t, "return")
        /\ outcome[t].value = ServerResult(CallToolResult("bad input", TRUE))
        /\ sent[t] = <<ServerResult(CallToolResult("bad input", FALSE))>>

\* C6: no response sent by _handle_request, on any path, has a true error
\* indicator; after a McpError the error's own payload is sent, with its
\* indicator (if it has one) false.
C6_NeverTrueIndicator ==
    \A t \in Tasks :
        /\ \A i \in 1..Len(sent[t]) : ~IndicatorTrue(sent[t][i])
        /\ (pc[t] = "done" /\ HandlerEnded(t, "McpError")) =>
               LET e == outcome[t].error IN
               /\ Len(sent[t]) = 1
               /\ DOMAIN sent[t][1] = DOMAIN e
               /\ \A f \in DOMAIN e \ {"isError"} : sent[t][1][f] = e[f]
               /\ "isError" \in DOMAIN e => sent[t][1].isError = FALSE

\* a McpError whose payload carried a true indicator has been answered
C6_Witness ==
    \E t \in Tasks :
        /\ pc[t] = "done"
        /\ HandlerEnded(t, "McpError")
        /\ "isError" \in DOMAIN outcome[t].error
        /\ outcome[t].error.isError = TRUE
        /\ Len(sent[t]) = 1

\* the handler's failure leaves _handle_request instead of being answered
FailureLeaves(t) ==
    \/ HandlerEnded(t, "BaseException")
    \/ HandlerEnded(t, "Exception") /\ raise_exceptions[t]

\* C7 (as stated): every call of _handle_request, whatever the handler
\* outcome and raise_exceptions, performs exactly one message.respond.
C7_Original == \A t \in Tasks : Ended(t) => Len(sent[t]) = 1

\* C7 (amended): a call performs exactly one message.respond, never two,
\* except when the handler's failure leaves the call (an Exception other than
\* McpError with raise_exceptions true, or an exception that is not an
\* Exception, such as a cancellation): then it performs none.
C7_OneRespondUnlessRaised ==
    \A t \in Tasks :
        /\ Len(sent[t]) <= 1
        /\ Ended(t) => Len(sent[t]) = IF FailureLeaves(t) THEN 0 ELSE 1

\* an unrecognized failure with raise_exceptions false has been answered once
C7_Witness ==
    \E t \in Tasks :
        /\ pc[t] = "done"
        /\ HandlerEnded(t, "Exception")
        /\ ~raise_exceptions[t]
        /\ Len(sent[t]) = 1

\* C8 (as stated): a failure leaves _handle_request iff the handler raised a
\* non-McpError failure and raise_exceptions is true, and then nothing is
\* sent; with raise_exceptions false that failure is sent as the generic
\* payload; a McpError is never re-raised.
C8_Original ==
    \A t \in Tasks :
        Ended(t) =>
            /\ (raised[t] /= "none") <=>
                   ((HandlerEnded(t, "Exception") \/ HandlerEnded(t, "BaseException"))
                    /\ raise_exceptions[t])
            /\ raised[t] /= "none" => sent[t] = <<>>
            /\ (HandlerEnded(t, "Exception") /\ ~raise_exceptions[t]) =>
                   sent[t] = <<ServerResult(ErrorData(0, outcome[t].text, None))>>
            /\ HandlerEnded(t, "McpError") => raised[t] = "none"

\* C8 (amended): a failure leaves _handle_request iff the handler raised an
\* Exception other than McpError and raise_exceptions is true, or the handler
\* raised an exception that is not an Exception (a cancellation), whatever
\* raise_exceptions is; then nothing is sent. An Exception with
\* raise_exceptions false is sent as the generic payload (code 0, message the
\* failure's text, no data); a McpError is never re-raised.
C8_EscapeIffReraised ==
    \A t \in Tasks :
        Ended(t) =>
            /\ (raised[t] /= "none") <=>
                   \/ HandlerEnded(t, "Exception") /\ raise_exceptions[t]
                   \/ HandlerEnded(t, "BaseException")
            /\ raised[t] /= "none" => (sent[t] = <<>> /\ raised[t] = outcome[t].kind)
            /\ (HandlerEnded(t, "Exception") /\ ~raise_exceptions[t]) =>
                   sent[t] = <<ServerResult(ErrorData(0, outcome[t].text, None))>>
            /\ HandlerEnded(t, "McpError") => raised[t] = "none"

\* both sides of raise_exceptions: one call re-raised an Exception, another
\* answered a McpError although raise_exceptions was true
C8_Witness ==
    \E t, u \in Tasks :
        /\ pc[t] = "raised" /\ raised[t] = "Exception" /\ raise_exceptions[t]
        /\ pc[u] = "done" /\ HandlerEnded(u, "McpError") /\ raise_exceptions[u]

\* C9: the binding made at the start of a dispatch is released on every exit
\* path, before the response is sent on the responding paths; once released
\* the task's request_ctx has its pre-dispatch value again.
C9_BindingReleased ==
    \A t \in Tasks :
        /\ pc[t] \in {"idle", "respond", "done", "raised"} =>
               request_ctx[t] = parent_ctx
        /\ Len(sent[t]) > 0 => request_ctx[t] = parent_ctx

\* a re-raised failure in a task that had inherited a binding, and a dispatch
\* that has released its binding and not responded yet
C9_Witness ==
    \E t, u \in Tasks :
        /\ parent_ctx = OuterBinding
        /\ pc[t] = "raised" /\ raised[t] = "Exception" /\ handler_calls[t] = 1
        /\ request_ctx[t] = OuterBinding
        /\ pc[u] = "respond" /\ handler_calls[u] = 1 /\ sent[u] = <<>>
        /\ request_ctx[u] = OuterBinding

\* C10: while its handler runs, a dispatch's context holds the binding of its
\* own request, and that is what the handler reads, whatever the other
\* dispatches set or release meanwhile.
C10_OwnBindingOnly ==
    \A t \in Tasks :
        pc[t] = "handler" =>
            /\ request_ctx[t] = BindingOf(t)
            /\ seen[t] \in {Unbound, BindingOf(t)}

\* two handlers in flight at once, one having read its binding; a third
\* binding has not leaked into either
C10_Witness ==
    \E t, u \in Tasks :
        /\ t /= u
        /\ pc[t] = "handler" /\ seen[t] = BindingOf(t)
        /\ pc[u] = "handler" /\ request_ctx[u] = BindingOf(u)
        /\ BindingOf(t) /= BindingOf(u)

\* the task's request has no entry in the handler table
RoutingMiss(t) == pc[t] \in {"respond", "done"} /\ req[t] \notin request_handlers

\* the raw payload of a routing miss: no wrapper, no error indicator
RawMethodNotFound == [code |-> -32601, message |-> "Method not found", data |-> None]

\* what holds of a dispatch whose request has no handler
C11_MissState ==
    \A t \in Tasks :
        RoutingMiss(t) =>
            /\ handler_calls[t] = 0
            /\ outcome[t] = Unbound
            /\ token[t] = NoToken
            /\ request_ctx[t] = parent_ctx
            /\ raised[t] = "none"
            /\ response[t] = RawMethodNotFound
            /\ pc[t] = "done" => sent[t] = <<RawMethodNotFound>>

\* what a step of any dispatch leaves alone: the handler table always, and
\* the task's context when the step is the lookup that misses
C11_MissStep ==
    /\ request_handlers' = request_handlers
    /\ \A t \in Tasks :
           (pc[t] = "idle" /\ pc'[t] = "respond") =>
               /\ request_ctx' = request_ctx
               /\ handler_calls'[t] = 0
               /\ token'[t] = NoToken

====
